---- MODULE Spec2Model ----
(***************************************************************************)
(* Model of the default methods of the dock `Behavior<Leaf>` trait         *)
(* (crates/egui_extras/src/dock/behavior.rs).                              *)
(*                                                                         *)
(* Lengths are whole points.  A colour is a Color32 record [r, g, b, a].   *)
(* A WidgetText is the sequence of its characters.  An implementor of the  *)
(* trait is a record: `title` is its tab_text_for_leaf, `over` the set of  *)
(* provided methods it overrides.                                          *)
(***************************************************************************)
EXTENDS Integers, Sequences, FiniteSets

VARIABLES nodes, behavior, ui, last, marked

vars == <<nodes, behavior, ui, last, marked>>

\* ------------------------------------------------------------------ bounds

\* Node ids range over 1..MaxNodes.
MaxNodes == 2

\* tab_ui calls per frame.
MaxTabs == 2

\* ------------------------------------------------------------------- types

NodeIds == 1..MaxNodes

Ids == {"tab1", "tab2"}

Leaves == {"a", "b"}

Layouts == {"Tabs", "Horizontal", "Vertical", "Grid"}

ResizeStates == {"Idle", "Hovering", "Dragging"}

\* The node values in a fixed order, with one gap for a missing node.
NodeSlots ==
    <<[kind |-> "Leaf", leaf |-> "a"],
      [kind |-> "Branch", layout |-> "Tabs"],
      [kind |-> "Absent"],
      [kind |-> "Leaf", leaf |-> "b"],
      [kind |-> "Branch", layout |-> "Horizontal"],
      [kind |-> "Branch", layout |-> "Vertical"],
      [kind |-> "Branch", layout |-> "Grid"]>>

SlotOf(i, r) == NodeSlots[((i + r) % Len(NodeSlots)) + 1]

\* The node maps the dock is tried with: map r holds, under node id i, the
\* slot i + r, so that every id is every kind of node (or missing) in some
\* map and neighbouring ids never hold the same value.
NodeMaps ==
    {[i \in {j \in NodeIds : SlotOf(j, r).kind # "Absent"} |-> SlotOf(i, r)] :
        r \in 0..(Len(NodeSlots) - 1)}

FromGray(l) == [r |-> l, g |-> l, b |-> l, a |-> 255]

TRANSPARENT == [r |-> 0, g |-> 0, b |-> 0, a |-> 0]

StrokeNew(width, color) == [width |-> width, color |-> color]

StrokeNONE == StrokeNew(0, TRANSPARENT)

WidgetVisuals(bg_fill, bg_stroke, fg_stroke) ==
    [bg_fill |-> bg_fill, bg_stroke |-> bg_stroke, fg_stroke |-> fg_stroke]

\* WidgetVisuals::text_color
TextColor(wv) == wv.fg_stroke.color

DarkVisuals ==
    [window_fill |-> FromGray(27),
     widgets |->
        [noninteractive |-> WidgetVisuals(FromGray(27), StrokeNew(1, FromGray(60)),
                                          StrokeNew(1, FromGray(140))),
         hovered |-> WidgetVisuals(FromGray(70), StrokeNew(1, FromGray(150)),
                                   StrokeNew(2, FromGray(240))),
         active |-> WidgetVisuals(FromGray(55), StrokeNew(1, FromGray(255)),
                                  StrokeNew(3, FromGray(255)))]]

LightVisuals ==
    [window_fill |-> FromGray(248),
     widgets |->
        [noninteractive |-> WidgetVisuals(FromGray(248), StrokeNew(1, FromGray(190)),
                                          StrokeNew(1, FromGray(80))),
         hovered |-> WidgetVisuals(FromGray(220), StrokeNew(1, FromGray(105)),
                                   StrokeNew(2, FromGray(0))),
         active |-> WidgetVisuals(FromGray(165), StrokeNew(1, FromGray(0)),
                                  StrokeNew(3, FromGray(0)))]]

Themes == {DarkVisuals, LightVisuals}

\* Visuals::window_fill
WindowFill(visuals) == visuals.window_fill

\* ------------------------------------------------------------ implementors

Hooks == {"tab_bar_color", "tab_bg_color", "tab_outline_stroke", "tab_text_color"}

Title == [l \in Leaves |-> IF l = "a" THEN <<"A">> ELSE <<"B", "b">>]

\* An implementor overrides nothing, one provided method, or all of them.
Overrides == {{}, Hooks} \cup {{h} : h \in Hooks}

Implementors == [title : {Title}, over : Overrides]

\* The required method tab_text_for_leaf of the implementor.
TabTextForLeaf(self, leaf) == self.title[leaf]

\* One channel of Color32::from(Rgba::from(c) * Rgba::from_gray(0.7)): sRGB
\* to linear, times 0.7, back to sRGB and rounded, at the window fills of
\* the themes.
FadeChannel(v) ==
    CASE v = 27 -> 21
      [] v = 248 -> 212
      [] v = 255 -> 218
      [] v = 0 -> 0

TabBarColorDefault(visuals) ==
    LET c == WindowFill(visuals)
    IN  [r |-> FadeChannel(c.r), g |-> FadeChannel(c.g), b |-> FadeChannel(c.b),
         a |-> c.a]

\* self.tab_bar_color(visuals): the override when the implementor has one.
TabBarColor(self, visuals) ==
    IF "tab_bar_color" \in self.over
    THEN [r |-> 10, g |-> 20, b |-> 30, a |-> 255]
    ELSE TabBarColorDefault(visuals)

\* A plausible slip: the default bar colour, past the implementor's override.
TabBgColorStatic(self, visuals, active) ==
    IF active
    THEN WindowFill(visuals)
    ELSE TabBarColorDefault(visuals)

TabBgColorDefault(self, visuals, active) ==
    IF active
    THEN WindowFill(visuals)
    ELSE TabBarColor(self, visuals)

TabBgColor(self, visuals, active) ==
    IF "tab_bg_color" \in self.over
    THEN (IF active THEN [r |-> 200, g |-> 0, b |-> 0, a |-> 255]
                    ELSE [r |-> 90, g |-> 0, b |-> 0, a |-> 255])
    ELSE TabBgColorDefault(self, visuals, active)

TabOutlineStrokeDefault(visuals, active) ==
    IF active
    THEN StrokeNew(1, visuals.widgets.active.bg_fill)
    ELSE StrokeNONE

TabOutlineStroke(self, visuals, active) ==
    IF "tab_outline_stroke" \in self.over
    THEN (IF active THEN StrokeNew(4, FromGray(128)) ELSE StrokeNew(2, FromGray(64)))
    ELSE TabOutlineStrokeDefault(visuals, active)

TabTextColorDefault(visuals, active) ==
    IF active
    THEN TextColor(visuals.widgets.active)
    ELSE TextColor(visuals.widgets.noninteractive)

TabTextColor(self, visuals, active) ==
    IF "tab_text_color" \in self.over
    THEN (IF active THEN [r |-> 0, g |-> 200, b |-> 0, a |-> 255]
                    ELSE [r |-> 0, g |-> 90, b |-> 0, a |-> 255])
    ELSE TabTextColorDefault(visuals, active)

\* A plausible slip: one leaf dropped.
RetainLeafDropsOne(leaf) == leaf # "b"

RetainLeaf(leaf) == TRUE

\* A plausible slip: the hovered and the active stroke swapped.
ResizeStrokeSwapped(style, resize_state) ==
    CASE resize_state = "Idle" -> StrokeNONE
      [] resize_state = "Hovering" -> style.visuals.widgets.active.fg_stroke
      [] resize_state = "Dragging" -> style.visuals.widgets.hovered.fg_stroke

ResizeStroke(style, resize_state) ==
    CASE resize_state = "Idle" -> StrokeNONE
      [] resize_state = "Hovering" -> style.visuals.widgets.hovered.fg_stroke
      [] resize_state = "Dragging" -> style.visuals.widgets.active.fg_stroke

\* format!("{:?}", layout)
DebugLayout(layout) ==
    CASE layout = "Tabs" -> <<"T", "a", "b", "s">>
      [] layout = "Horizontal" -> <<"H", "o", "r", "i", "z", "o", "n", "t", "a", "l">>
      [] layout = "Vertical" -> <<"V", "e", "r", "t", "i", "c", "a", "l">>
      [] layout = "Grid" -> <<"G", "r", "i", "d">>

Call(hook, arg) == [hook |-> hook, arg |-> arg]

\* The result of a method: what it returned, the implementor methods it
\* called in order, and whether it panicked instead of returning.
Returned(ret, calls) == [panicked |-> FALSE, ret |-> <<ret>>, calls |-> calls]

Panicked == [panicked |-> TRUE, ret |-> <<>>, calls |-> <<>>]

\* A plausible slip: the leaf's text asked for twice.
TabTextForNodeTwice(self, nodemap, node_id) ==
    IF node_id \notin DOMAIN nodemap
    THEN Panicked
    ELSE LET node == nodemap[node_id]
         IN  IF node.kind = "Leaf"
             THEN Returned(TabTextForLeaf(self, node.leaf),
                           <<Call("tab_text_for_leaf", <<node.leaf>>),
                             Call("tab_text_for_leaf", <<node.leaf>>)>>)
             ELSE Returned(DebugLayout(node.layout), <<>>)

\* nodes.nodes[&node_id] panics on a missing key.
TabTextForNode(self, nodemap, node_id) ==
    IF node_id \notin DOMAIN nodemap
    THEN Panicked
    ELSE LET node == nodemap[node_id]
         IN  IF node.kind = "Leaf"
             THEN Returned(TabTextForLeaf(self, node.leaf),
                           <<Call("tab_text_for_leaf", <<node.leaf>>)>>)
             ELSE Returned(DebugLayout(node.layout), <<>>)

\* ---------------------------------------------------------------- the Ui

Pos(x, y) == [x |-> x, y |-> y]

Rect(min, max) == [min |-> min, max |-> max]

\* Rect::intersects
Intersects(a, b) ==
    /\ a.min.x <= b.max.x
    /\ b.min.x <= a.max.x
    /\ a.min.y <= b.max.y
    /\ b.min.y <= a.max.y

\* Rect::expand2
Expand2(rect, amnt) ==
    Rect(Pos(rect.min.x - amnt.x, rect.min.y - amnt.y),
         Pos(rect.max.x + amnt.x, rect.max.y + amnt.y))

\* Rect::x_range
XRange(rect) == <<rect.min.x, rect.max.x>>

\* Rect::bottom
Bottom(rect) == rect.max.y

SenseClickAndDrag == [click |-> TRUE, drag |-> TRUE]

\* The Uis the tab bar hands to tab_ui: the visuals of its style, its max
\* rect, its clip rect, whether its painter is visible, and the horizontal
\* item spacing.  The second clips away whatever ends left of x = 40.
UiSetups ==
    <<[visuals |-> DarkVisuals,
       max_rect |-> Rect(Pos(0, 30), Pos(400, 50)),
       clip_rect |-> Rect(Pos(0, 0), Pos(400, 300)),
       visible |-> TRUE, spacing_x |-> 8],
      [visuals |-> LightVisuals,
       max_rect |-> Rect(Pos(10, 0), Pos(300, 24)),
       clip_rect |-> Rect(Pos(40, 0), Pos(300, 300)),
       visible |-> TRUE, spacing_x |-> 4],
      [visuals |-> LightVisuals,
       max_rect |-> Rect(Pos(0, 30), Pos(400, 50)),
       clip_rect |-> Rect(Pos(0, 0), Pos(400, 300)),
       visible |-> FALSE, spacing_x |-> 8]>>

\* A Ui at the start of a tab bar: nothing allocated, registered or painted.
NewUi(geo) ==
    [visuals |-> geo.visuals,
     spacing_x |-> geo.spacing_x,
     max_rect |-> geo.max_rect,
     clip_rect |-> geo.clip_rect,
     visible |-> geo.visible,
     cursor_x |-> geo.max_rect.min.x,
     allocated |-> <<>>,
     interactions |-> <<>>,
     shapes |-> <<>>]

\* WidgetText::into_galley(ui, Some(false), f32::INFINITY, font_id): one row,
\* never wrapped, every character 7 wide and 14 high.
IntoGalley(text) == [text |-> text, size |-> Pos(7 * Len(text), 14)]

\* Ui::allocate_space in a left-to-right layout, centred vertically.
AllocateSpace(u, size) ==
    LET top == u.max_rect.min.y
               + ((u.max_rect.max.y - u.max_rect.min.y) - size.y) \div 2
        rect == Rect(Pos(u.cursor_x, top), Pos(u.cursor_x + size.x, top + size.y))
    IN  [ui |-> [u EXCEPT !.cursor_x = rect.max.x + u.spacing_x,
                          !.allocated = Append(@, size)],
         rect |-> rect]

\* Ui::interact
Interact(u, rect, id, sense) ==
    LET response == [id |-> id, rect |-> rect, sense |-> sense]
    IN  [ui |-> [u EXCEPT !.interactions = Append(@, response)],
         response |-> response]

\* Ui::is_rect_visible
IsRectVisible(u, rect) == u.visible /\ Intersects(rect, u.clip_rect)

\* Painter::rect
RectShape(rect, rounding, fill, stroke) ==
    [kind |-> "rect", rect |-> rect, rounding |-> rounding, fill |-> fill,
     stroke |-> stroke]

\* Painter::hline
HLineShape(x, y, stroke) == [kind |-> "hline", x |-> x, y |-> y, stroke |-> stroke]

\* Painter::galley_with_color
GalleyShape(pos, galley, color) ==
    [kind |-> "galley", pos |-> pos, galley |-> galley, color |-> color]

Paint(u, shape) == [u EXCEPT !.shapes = Append(@, shape)]

\* ------------------------------------------------------------------ tab_ui

\* The background rectangle of a tab.
BgRect(u, rect) ==
    LET stretched == Rect(Pos(rect.min.x, u.max_rect.min.y),
                          Pos(rect.max.x, u.max_rect.max.y))
    IN  Expand2(stretched, Pos(u.spacing_x \div 2, 0))

\* The line that makes the tab name area connect with the tab ui area.
\* A plausible slip: the outline's own width, without the + 1.0.
TabHLineThin(bg_rect, stroke, bg_color) ==
    HLineShape(XRange(bg_rect), Bottom(bg_rect), StrokeNew(stroke.width, bg_color))

TabHLine(bg_rect, stroke, bg_color) ==
    HLineShape(XRange(bg_rect), Bottom(bg_rect), StrokeNew(stroke.width + 1, bg_color))

\* A plausible slip: the text painted first, so the background covers it.
PaintTabTextFirst(self, u, rect, galley, active) ==
    LET bg_rect == BgRect(u, rect)
        text_color == TabTextColor(self, u.visuals, active)
        u0 == Paint(u, GalleyShape(rect.min, galley, text_color))
        bg_color == TabBgColor(self, u.visuals, active)
        stroke == TabOutlineStroke(self, u.visuals, active)
        u1 == Paint(u0, RectShape(bg_rect, 0, bg_color, stroke))
    IN  [ui |-> IF active THEN Paint(u1, TabHLine(bg_rect, stroke, bg_color)) ELSE u1,
         calls |-> <<Call("tab_text_color", <<active>>),
                     Call("tab_bg_color", <<active>>),
                     Call("tab_outline_stroke", <<active>>)>>]

\* The body of `if ui.is_rect_visible(rect) && !is_being_dragged`.
PaintTab(self, u, rect, galley, active) ==
    LET bg_rect == BgRect(u, rect)
        bg_color == TabBgColor(self, u.visuals, active)
        stroke == TabOutlineStroke(self, u.visuals, active)
        u1 == Paint(u, RectShape(bg_rect, 0, bg_color, stroke))
        u2 == IF active THEN Paint(u1, TabHLine(bg_rect, stroke, bg_color)) ELSE u1
        text_color == TabTextColor(self, u.visuals, active)
    IN  [ui |-> Paint(u2, GalleyShape(rect.min, galley, text_color)),
         calls |-> <<Call("tab_bg_color", <<active>>),
                     Call("tab_outline_stroke", <<active>>),
                     Call("tab_text_color", <<active>>)>>]

\* A plausible slip: the gap forgotten, a dragged tab painted like any other.
ShouldPaintDragged(u, rect, is_being_dragged) == IsRectVisible(u, rect)

\* Show a gap when dragged.
ShouldPaint(u, rect, is_being_dragged) == IsRectVisible(u, rect) /\ ~is_being_dragged

\* A plausible slip: a dragged tab returns early, before it takes its space.
TabUiDraggedTakesNoSpace(self, nodemap, u, id, node_id, active, is_being_dragged) ==
    LET text == TabTextForNode(self, nodemap, node_id)
    IN  IF text.panicked
        THEN [panicked |-> TRUE, ui |-> u, ret |-> <<>>, calls |-> <<>>]
        ELSE LET galley == IntoGalley(text.ret[1])
                 space == IF is_being_dragged
                          THEN AllocateSpace(u, Pos(0, 0))
                          ELSE AllocateSpace(u, galley.size)
                 inter == Interact(space.ui, space.rect, id, SenseClickAndDrag)
             IN  IF ShouldPaint(inter.ui, space.rect, is_being_dragged)
                 THEN LET painted == PaintTab(self, inter.ui, space.rect, galley, active)
                      IN  [panicked |-> FALSE, ui |-> painted.ui,
                           ret |-> <<inter.response>>,
                           calls |-> text.calls \o painted.calls]
                 ELSE [panicked |-> FALSE, ui |-> inter.ui,
                       ret |-> <<inter.response>>, calls |-> text.calls]

TabUi(self, nodemap, u, id, node_id, active, is_being_dragged) ==
    LET text == TabTextForNode(self, nodemap, node_id)
    IN  IF text.panicked
        THEN [panicked |-> TRUE, ui |-> u, ret |-> <<>>, calls |-> <<>>]
        ELSE LET galley == IntoGalley(text.ret[1])
                 space == AllocateSpace(u, galley.size)
                 inter == Interact(space.ui, space.rect, id, SenseClickAndDrag)
             IN  IF ShouldPaint(inter.ui, space.rect, is_being_dragged)
                 THEN LET painted == PaintTab(self, inter.ui, space.rect, galley, active)
                      IN  [panicked |-> FALSE, ui |-> painted.ui,
                           ret |-> <<inter.response>>,
                           calls |-> text.calls \o painted.calls]
                 ELSE [panicked |-> FALSE, ui |-> inter.ui,
                       ret |-> <<inter.response>>, calls |-> text.calls]

\* ----------------------------------------------------------------- actions

NoCall == [op |-> "none", args |-> <<>>, panicked |-> FALSE, ret |-> <<>>,
           calls |-> <<>>]

Done(op, args, res) ==
    [op |-> op, args |-> args, panicked |-> res.panicked, ret |-> res.ret,
     calls |-> res.calls]

Init ==
    /\ nodes \in NodeMaps
    /\ behavior \in Implementors
    /\ ui = NewUi(UiSetups[1])
    /\ last = NoCall
    /\ marked = {}

\* The tab bar starts over with a fresh Ui.
BeginFrame ==
    /\ ~last.panicked
    /\ \E k \in DOMAIN UiSetups : ui' = NewUi(UiSetups[k])
    /\ last' = NoCall
    /\ UNCHANGED <<nodes, behavior, marked>>

CallTabUi ==
    /\ ~last.panicked
    /\ Len(ui.interactions) < MaxTabs
    /\ \E id \in Ids, node_id \in NodeIds, active \in BOOLEAN,
          is_being_dragged \in BOOLEAN :
          LET res == TabUi(behavior, nodes, ui, id, node_id, active, is_being_dragged)
          IN  /\ ui' = res.ui
              /\ last' = Done("tab_ui", <<ui, id, node_id, active, is_being_dragged>>,
                              res)
    /\ UNCHANGED <<nodes, behavior, marked>>

CallTabTextForNode ==
    /\ ~last.panicked
    /\ \E node_id \in NodeIds :
          last' = Done("tab_text_for_node", <<node_id>>,
                       TabTextForNode(behavior, nodes, node_id))
    /\ UNCHANGED <<nodes, behavior, ui, marked>>

\* The caller drops a leaf from its parent when retain_leaf returns false.
CallRetainLeaf ==
    /\ ~last.panicked
    /\ \E leaf \in Leaves :
          LET keep == RetainLeaf(leaf)
          IN  /\ last' = Done("retain_leaf", <<leaf>>, Returned(keep, <<>>))
              /\ marked' = IF keep THEN marked ELSE marked \cup {leaf}
    /\ UNCHANGED <<nodes, behavior, ui>>

CallResizeStroke ==
    /\ ~last.panicked
    /\ \E visuals \in Themes, resize_state \in ResizeStates :
          last' = Done("resize_stroke", <<visuals, resize_state>>,
                       Returned(ResizeStroke([visuals |-> visuals], resize_state), <<>>))
    /\ UNCHANGED <<nodes, behavior, ui, marked>>

CallTabBgColor ==
    /\ ~last.panicked
    /\ \E visuals \in Themes, active \in BOOLEAN :
          last' = Done("tab_bg_color", <<visuals, active>>,
                       Returned(TabBgColor(behavior, visuals, active), <<>>))
    /\ UNCHANGED <<nodes, behavior, ui, marked>>

Next == BeginFrame \/ CallTabUi

Spec == Init /\ [][Next]_vars

HookNext == CallTabTextForNode \/ CallRetainLeaf \/ CallResizeStroke \/ CallTabBgColor

HookSpec == Init /\ [][HookNext]_vars

\* ------------------------------------------------------------- properties

\* The last call was a tab_ui that returned.
TabUiReturned == last.op = "tab_ui" /\ ~last.panicked

\* Its arguments, and the Ui as it was when the call began.
UiBefore == last.args[1]
ArgId == last.args[2]
ArgNodeId == last.args[3]
ArgActive == last.args[4]
ArgDragged == last.args[5]

\* The response it returned, and the rectangle that response is about.
TabResponse == last.ret[1]
TabRect == TabResponse.rect

\* The paint commands the call issued: what the painter holds past what it
\* held before.
NewShapes == SubSeq(ui.shapes, Len(UiBefore.shapes) + 1, Len(ui.shapes))

KindsOf(shapes) == [i \in 1..Len(shapes) |-> shapes[i].kind]

CallsOf(hook) == SelectSeq(last.calls, LAMBDA c : c.hook = hook)

\* The call took one more space and registered one more interaction, the one
\* it returned, and touched nothing else of the Ui but the painter.
TookSpaceAndInteracted ==
    /\ Len(ui.allocated) = Len(UiBefore.allocated) + 1
    /\ SubSeq(ui.allocated, 1, Len(UiBefore.allocated)) = UiBefore.allocated
    /\ ui.cursor_x = TabRect.max.x + ui.spacing_x
    /\ ui.interactions = Append(UiBefore.interactions, TabResponse)
    /\ TabResponse.id = ArgId
    /\ Len(last.ret) = 1

\* C1: for a node id present in the node map, tab_text_for_node returns the
\* implementor's tab_text_for_leaf of the leaf when the node is a leaf, calling
\* it exactly once, and the debug rendering of the branch's layout when the
\* node is a branch, never calling tab_text_for_leaf.
C1_TabTextForNode ==
    (last.op = "tab_text_for_node" /\ last.args[1] \in DOMAIN nodes) =>
        LET node == nodes[last.args[1]]
        IN  /\ ~last.panicked
            /\ node.kind = "Leaf" =>
                  /\ last.ret = <<behavior.title[node.leaf]>>
                  /\ last.calls = <<Call("tab_text_for_leaf", <<node.leaf>>)>>
            /\ node.kind = "Branch" =>
                  /\ last.ret = <<DebugLayout(node.layout)>>
                  /\ CallsOf("tab_text_for_leaf") = <<>>

C1_Witness ==
    /\ last.op = "tab_text_for_node"
    /\ last.args[1] \in DOMAIN nodes
    /\ nodes[last.args[1]].kind = "Leaf"
    /\ last.ret = <<<<"B", "b">>>>
    /\ \E i \in DOMAIN nodes : nodes[i].kind = "Branch"

\* C2: a tab_ui call with is_being_dragged, or whose allocated rectangle is
\* not visible, issues no paint command, for either value of active, and
\* still allocates the tab's space and returns the interaction's response.
C2_GapWhenDragged ==
    (TabUiReturned /\ (ArgDragged \/ ~IsRectVisible(ui, TabRect))) =>
        /\ ui.shapes = UiBefore.shapes
        /\ TookSpaceAndInteracted

C2_Witness ==
    /\ TabUiReturned
    /\ ArgDragged
    /\ ArgActive
    /\ IsRectVisible(ui, TabRect)
    /\ Len(ui.interactions) = 2
    /\ ui.shapes # <<>>

\* C3: under the default retain_leaf no call ever returns false, so no leaf
\* is ever marked for removal.
C3_NoLeafMarked ==
    /\ marked = {}
    /\ last.op = "retain_leaf" => last.ret = <<TRUE>>

C3_Witness == last.op = "retain_leaf" /\ last.args = <<"b">> /\ last.ret = <<TRUE>>

\* C5: tab_ui paints the connecting line if and only if active is true, the
\* rectangle is visible and the tab is not being dragged; the line spans the
\* background rectangle's x range at its bottom edge, has the colour that
\* tab_bg_color returned and the width of tab_outline_stroke's stroke plus 1.
C5_ConnectingLine ==
    TabUiReturned =>
        LET lines == SelectSeq(NewShapes, LAMBDA sh : sh.kind = "hline")
            bgs == SelectSeq(NewShapes, LAMBDA sh : sh.kind = "rect")
        IN  IF ArgActive /\ IsRectVisible(ui, TabRect) /\ ~ArgDragged
            THEN /\ Len(lines) = 1
                 /\ Len(bgs) = 1
                 /\ lines[1].x = <<bgs[1].rect.min.x, bgs[1].rect.max.x>>
                 /\ lines[1].y = bgs[1].rect.max.y
                 /\ lines[1].stroke.color = TabBgColor(behavior, ui.visuals, ArgActive)
                 /\ lines[1].stroke.color = bgs[1].fill
                 /\ lines[1].stroke.width
                       = TabOutlineStroke(behavior, ui.visuals, ArgActive).width + 1
            ELSE lines = <<>>

C5_Witness ==
    /\ TabUiReturned
    /\ \E i \in 1..Len(NewShapes) :
          NewShapes[i].kind = "hline" /\ NewShapes[i].stroke.width = 5
    /\ Len(ui.interactions) = 2

\* C6: resize_stroke returns for every resize state: no stroke when idle, the
\* style's hovered foreground stroke when hovering, its active foreground
\* stroke when dragging; a stroke of some width only when hovered or dragged.
C6_ResizeStroke ==
    last.op = "resize_stroke" =>
        LET visuals == last.args[1]
            resize_state == last.args[2]
        IN  /\ ~last.panicked
            /\ Len(last.ret) = 1
            /\ resize_state = "Idle" => last.ret[1] = StrokeNONE
            /\ resize_state = "Hovering" =>
                  last.ret[1] = visuals.widgets.hovered.fg_stroke
            /\ resize_state = "Dragging" =>
                  last.ret[1] = visuals.widgets.active.fg_stroke
            /\ last.ret[1].width > 0 => resize_state \in {"Hovering", "Dragging"}

C6_Witness ==
    /\ last.op = "resize_stroke"
    /\ last.args[2] = "Hovering"
    /\ last.ret[1].width = 2

\* C7: the default tab_bg_color returns the visuals' window fill for an
\* active tab and the implementor's tab_bar_color of the same visuals for an
\* inactive one, so overriding tab_bar_color changes the inactive background
\* and never the active one.
C7_TabBgColor ==
    (last.op = "tab_bg_color" /\ "tab_bg_color" \notin behavior.over) =>
        LET visuals == last.args[1]
            active == last.args[2]
        IN  /\ active => last.ret = <<visuals.window_fill>>
            /\ ~active => last.ret = <<TabBarColor(behavior, visuals)>>
            /\ (~active /\ "tab_bar_color" \in behavior.over) =>
                  last.ret # <<TabBarColorDefault(visuals)>>

C7_Witness ==
    /\ last.op = "tab_bg_color"
    /\ behavior.over = {"tab_bar_color"}
    /\ ~last.args[2]
    /\ last.ret = <<[r |-> 10, g |-> 20, b |-> 30, a |-> 255]>>

\* What a tab_ui call allocated, registered and returned.
Interaction(res) ==
    <<res.panicked, res.ret, res.ui.allocated, res.ui.cursor_x, res.ui.interactions>>

\* C8: what tab_ui allocates, registers and returns does not depend on active
\* or is_being_dragged: from any Ui it is called on, a call with any flags
\* takes the same space, registers the same interaction and returns the same
\* response as the call with both flags false (hence as any call that differs
\* from it only in the flags); the space is the size of the tab text laid out
\* unwrapped, the interaction is one click-and-drag under the given id on
\* that rectangle.
C8_FlagsDoNotSteerInteraction ==
    /\ (~last.panicked /\ Len(ui.interactions) < MaxTabs) =>
       \A id \in Ids, node_id \in NodeIds :
          LET plain == Interaction(TabUi(behavior, nodes, ui, id, node_id, FALSE, FALSE))
          IN  \A active \in BOOLEAN, is_being_dragged \in BOOLEAN :
                 (active \/ is_being_dragged) =>
                    Interaction(TabUi(behavior, nodes, ui, id, node_id, active,
                                      is_being_dragged)) = plain
    /\ TabUiReturned =>
          LET text == IF nodes[ArgNodeId].kind = "Leaf"
                      THEN behavior.title[nodes[ArgNodeId].leaf]
                      ELSE DebugLayout(nodes[ArgNodeId].layout)
          IN  /\ TookSpaceAndInteracted
              /\ ui.allocated[Len(ui.allocated)] = Pos(7 * Len(text), 14)
              /\ TabRect.max.x - TabRect.min.x = 7 * Len(text)
              /\ TabRect.max.y - TabRect.min.y = 14
              /\ TabRect.min.x = UiBefore.cursor_x
              /\ TabResponse.sense = [click |-> TRUE, drag |-> TRUE]

C8_Witness ==
    /\ TabUiReturned
    /\ ArgDragged
    /\ ~ArgActive
    /\ Len(ui.interactions) = 2
    /\ ui.interactions[1].rect # ui.interactions[2].rect
    /\ TabRect.max.x - TabRect.min.x = 70

\* C9: a tab_ui call that paints issues, after whatever was painted before:
\* the background rectangle (as high as the Ui's max rect, half the item
\* spacing wider on each side than the tab's rectangle), then the connecting
\* line if active, then the tab text at the rectangle's top-left corner; and
\* it calls tab_bg_color, tab_outline_stroke and tab_text_color once each,
\* with the active flag it received.
C9_PaintOrder ==
    TabUiReturned =>
        /\ SubSeq(ui.shapes, 1, Len(UiBefore.shapes)) = UiBefore.shapes
        /\ NewShapes # <<>> =>
              LET n == Len(NewShapes)
                  bg == NewShapes[1]
                  txt == NewShapes[n]
              IN  /\ KindsOf(NewShapes)
                        = IF ArgActive THEN <<"rect", "hline", "galley">>
                                       ELSE <<"rect", "galley">>
                  /\ bg.rect.min.y = ui.max_rect.min.y
                  /\ bg.rect.max.y = ui.max_rect.max.y
                  /\ 2 * (TabRect.min.x - bg.rect.min.x) = ui.spacing_x
                  /\ 2 * (bg.rect.max.x - TabRect.max.x) = ui.spacing_x
                  /\ txt.pos = TabRect.min
                  /\ \A h \in {"tab_bg_color", "tab_outline_stroke", "tab_text_color"} :
                        CallsOf(h) = <<Call(h, <<ArgActive>>)>>

C9_Witness ==
    /\ TabUiReturned
    /\ ArgActive
    /\ Len(NewShapes) = 3
    /\ Len(ui.shapes) = 5
    /\ ui.spacing_x = 4

====
